---- MODULE Spec2Model ----
(***************************************************************************)
(* pg_nifty_dump: load a directory of per-ticker CSV files into PostgreSQL, *)
(* one table per file (src/src/main.rs).  The module models main() as a     *)
(* state machine whose steps are the code segments between file-system     *)
(* calls and awaited database calls, the connection as a queue of          *)
(* statements in flight and a queue of replies, and the database as a map  *)
(* from table identifiers to committed row counts.                         *)
(*                                                                         *)
(* Strings are sequences of characters (one-character strings); a          *)
(* character outside ASCII is the token EAcute, two bytes wide in UTF-8.   *)
(***************************************************************************)
EXTENDS Integers, Sequences, FiniteSets, TLC

\* ------------------------------------------------------------------ bounds
\* Largest number of directory entries one run enumerates.
MaxFiles == 2
\* Largest number of data rows of a file.
MaxRows == 2
\* Longest file name, in characters, of the exhaustive file-name inputs.
MaxNameLen == 6
\* Rows a table holds already when the run finds it rather than creates it.
PreRows == 1

\* ------------------------------------------------------- static strings
\* static VERIFY_CSV_HEADER: &str, character by character.
VERIFY_CSV_HEADER ==
  <<
    "d", "a", "t", "e", ",", "c", "l", "o", "s", "e", ",", "h", "i", "g", "h", ",",
    "l", "o", "w", ",", "o", "p", "e", "n", ",", "v", "o", "l", "u", "m", "e", ",",
    "s", "m", "a", "5", ",", "s", "m", "a", "1", "0", ",", "s", "m", "a", "1", "5",
    ",", "s", "m", "a", "2", "0", ",", "e", "m", "a", "5", ",", "e", "m", "a", "1",
    "0", ",", "e", "m", "a", "1", "5", ",", "e", "m", "a", "2", "0", ",", "u", "p",
    "p", "e", "r", "b", "a", "n", "d", ",", "m", "i", "d", "d", "l", "e", "b", "a",
    "n", "d", ",", "l", "o", "w", "e", "r", "b", "a", "n", "d", ",", "H", "T", "_",
    "T", "R", "E", "N", "D", "L", "I", "N", "E", ",", "K", "A", "M", "A", "1", "0",
    ",", "K", "A", "M", "A", "2", "0", ",", "K", "A", "M", "A", "3", "0", ",", "S",
    "A", "R", ",", "T", "R", "I", "M", "A", "5", ",", "T", "R", "I", "M", "A", "1",
    "0", ",", "T", "R", "I", "M", "A", "2", "0", ",", "A", "D", "X", "5", ",", "A",
    "D", "X", "1", "0", ",", "A", "D", "X", "2", "0", ",", "A", "P", "O", ",", "C",
    "C", "I", "5", ",", "C", "C", "I", "1", "0", ",", "C", "C", "I", "1", "5", ",",
    "m", "a", "c", "d", "5", "1", "0", ",", "m", "a", "c", "d", "5", "2", "0", ",",
    "m", "a", "c", "d", "1", "0", "2", "0", ",", "m", "a", "c", "d", "1", "5", "2",
    "0", ",", "m", "a", "c", "d", "1", "2", "2", "6", ",", "M", "F", "I", ",", "M",
    "O", "M", "1", "0", ",", "M", "O", "M", "1", "5", ",", "M", "O", "M", "2", "0",
    ",", "R", "O", "C", "5", ",", "R", "O", "C", "1", "0", ",", "R", "O", "C", "2",
    "0", ",", "P", "P", "O", ",", "R", "S", "I", "1", "4", ",", "R", "S", "I", "8",
    ",", "s", "l", "o", "w", "k", ",", "s", "l", "o", "w", "d", ",", "f", "a", "s",
    "t", "k", ",", "f", "a", "s", "t", "d", ",", "f", "a", "s", "t", "k", "s", "r",
    ",", "f", "a", "s", "t", "d", "s", "r", ",", "U", "L", "T", "O", "S", "C", ",",
    "W", "I", "L", "L", "R", ",", "A", "T", "R", ",", "T", "r", "a", "n", "g", "e",
    ",", "T", "Y", "P", "P", "R", "I", "C", "E", ",", "H", "T", "_", "D", "C", "P",
    "E", "R", "I", "O", "D", ",", "B", "E", "T", "A"
  >>

\* A character that UTF-8 encodes in two bytes (U+00E9).
EAcute == "U+00E9"

\* Bytes of a character in UTF-8 (String::len and truncate count bytes).
Width(c) == IF c = EAcute THEN 2 ELSE 1

RECURSIVE ByteLen(_)
\* String::len: the length in bytes.
ByteLen(s) == IF s = <<>> THEN 0 ELSE Width(Head(s)) + ByteLen(Tail(s))

\* str::is_char_boundary: byte offset k starts a character or is the end.
IsCharBoundary(s, k) == \E i \in 0..Len(s) : ByteLen(SubSeq(s, 1, i)) = k

\* String::truncate(new_len) when new_len <= len and new_len is a character
\* boundary: the characters that lie in the first new_len bytes.
Truncate(s, new_len) ==
  LET i == CHOOSE j \in 0..Len(s) : ByteLen(SubSeq(s, 1, j)) = new_len
  IN  SubSeq(s, 1, i)

\* str::replace for a one-character pattern.
Replace(s, from, to) == [i \in 1..Len(s) |-> IF s[i] = from THEN to ELSE s[i]]

\* A sanitise that forgets the '.' replacement.
sanitise_keeps_dot(s) == Replace(Replace(s, "-", "_"), " ", "_")

\* fn sanitise: '-', ' ' and '.' each become '_'.
sanitise(s) == Replace(Replace(Replace(s, "-", "_"), " ", "_"), ".", "_")

\* str::split(",").collect(): the fields between the separators, in order
\* (one more field than there are separators).
Split(s) ==
  LET commas == {i \in 1..Len(s) : s[i] = ","}
      n == Cardinality(commas)
      bound(k) == IF k = 0 THEN 0
                  ELSE IF k = n + 1 THEN Len(s) + 1
                  ELSE CHOOSE p \in commas : Cardinality({q \in commas : q <= p}) = k
  IN  [k \in 1..(n + 1) |-> SubSeq(s, bound(k - 1) + 1, bound(k) - 1)]

\* A valid_header that loses its sixth column.
valid_header_short ==
  LET h == Split(VERIFY_CSV_HEADER)
  IN  SubSeq(h, 1, 5) \o SubSeq(h, 7, Len(h))

\* let valid_header: Vec<&str> = VERIFY_CSV_HEADER.split(",").collect();
valid_header == Split(VERIFY_CSV_HEADER)

\* The column list of the copy statement; the same text as VERIFY_CSV_HEADER.
CopyColumns == Split(VERIFY_CSV_HEADER)

\* An order-insensitive comparison of two records.
RecordEqAsSets(a, b) ==
  {a[i] : i \in 1..Len(a)} = {b[i] : i \in 1..Len(b)}

\* PartialEq of csv::StringRecord: same number of fields, equal field by field.
RecordEq(a, b) ==
  /\ Len(a) = Len(b)
  /\ \A i \in 1..Len(a) : a[i] = b[i]

\* ------------------------------------------------------------------ inputs
\* File names a directory of the runs may hold.  The first two derive the
\* same table name; the last two derive names the database folds together.
NameSet ==
  { <<"a", "-", "b", ".", "c", "s", "v">>,
    <<"a", ".", "b", ".", "c", "s", "v">>,
    <<"A", ".", "c", "s", "v">>,
    <<"a", ".", "c", "s", "v">> }

\* Characters of the exhaustive file-name inputs.
Alphabet == {"a", "-", " ", ".", EAcute}

\* Every file name of 1..MaxNameLen characters over Alphabet.
AllNames == UNION {[1..n -> Alphabet] : n \in 1..MaxNameLen}

\* h without its i-th field.
Drop(h, i) == SubSeq(h, 1, i - 1) \o SubSeq(h, i + 1, Len(h))

\* h with its i-th and j-th fields exchanged.
Swap(h, i, j) ==
  [k \in 1..Len(h) |-> IF k = i THEN h[j] ELSE IF k = j THEN h[i] ELSE h[k]]

\* h back to front.
Reverse(h) == [k \in 1..Len(h) |-> h[Len(h) + 1 - k]]

\* Header rows of the files of the runs: the expected one and one that omits
\* volume.
DirHeaders == { valid_header, Drop(valid_header, 6) }

\* Header rows of the header-check inputs: the expected one, every exchange
\* of two columns, the reversal, every omission of one column (in order and
\* with two columns exchanged), every proper prefix, and headers that are
\* neither (an extra column, a repeated column, a misspelt column).
HeaderCases ==
  LET n == Len(valid_header)
  IN  {valid_header, Reverse(valid_header)}
        \cup {Swap(valid_header, i, j) : i, j \in 1..n}
        \cup {Drop(valid_header, i) : i \in 1..n}
        \cup {Swap(Drop(valid_header, i), 1, 2) : i \in 1..n}
        \cup {SubSeq(valid_header, 1, k) : k \in 0..(n - 1)}
        \cup { Append(valid_header, <<"x">>),
               [valid_header EXCEPT ![n] = valid_header[1]],
               [valid_header EXCEPT ![n] = <<"b", "e", "t", "a">>] }

\* A data row is its number of fields: as many as the copy statement lists
\* columns, or one fewer (which the database rejects).
GoodRow == Len(CopyColumns)
BadRow == Len(CopyColumns) - 1

\* The data rows of a file: up to MaxRows rows.
RowFiles == UNION {[1..n -> {GoodRow, BadRow}] : n \in 0..MaxRows}

\* ------------------------------------------------------------ table names
\* The result of lines 52-54 for a file name: a panic, or the table name.
\* len() - 4 is a usize subtraction: below 4 bytes it panics where overflow
\* checks are compiled in and wraps to a length beyond the string's where
\* they are not, and truncate beyond the length does nothing.  truncate
\* panics when the new length is not a character boundary.
DeriveOutcomes(name) ==
  LET len == ByteLen(name)
  IN  IF len < 4
        THEN { [panic |-> TRUE, name |-> <<>>],
               [panic |-> FALSE, name |-> sanitise(name)] }
      ELSE IF ~IsCharBoundary(name, len - 4)
        THEN { [panic |-> TRUE, name |-> <<>>] }
      ELSE { [panic |-> FALSE, name |-> sanitise(Truncate(name, len - 4))] }

\* An unquoted identifier as the database resolves it: letters fold to lower
\* case.
DbIdent(t) == [i \in 1..Len(t) |-> IF t[i] = "A" THEN "a" ELSE t[i]]

\* The tables the runs' file names can name.
TableIdents ==
  {DbIdent(o.name) : o \in {x \in UNION {DeriveOutcomes(f) : f \in NameSet} : ~x.panic}}

\* No such table.
NoTable == -1

\* ------------------------------------------------------------------- state
VARIABLES
  pc,                   \* where main() stands
  valid_header_record,  \* the expected header record (line 22)
  seen,                 \* directory entries the iterator has yielded
  file_name,            \* the current entry's file name
  headers,              \* the current file's header record
  table_name,           \* the current file's table name
  inflight,             \* statements sent on the connection, not yet executed
  replies,              \* results the connection holds for the client
  copied,               \* rows the running copy has read, uncommitted
  db,                   \* table identifier -> committed rows, or NoTable
  load,                 \* the latest copy: its table, the file's rows, the rows before
  log                   \* every file-system call, statement, result and printed line

vars ==
  <<pc, valid_header_record, seen, file_name, headers, table_name,
    inflight, replies, copied, db, load, log>>

\* One entry of the log.
Ev(e, f, a) == [ev |-> e, file |-> f, arg |-> a]

\* A statement on the connection.
Stmt(k, t, f, r) == [kind |-> k, table |-> t, file |-> f, rows |-> r]

\* Before main() runs: the database holds none of the tables, or all of them
\* from an earlier run.
Init ==
  /\ pc = "start"
  /\ valid_header_record = <<>>
  /\ seen = {}
  /\ file_name = <<>>
  /\ headers = <<>>
  /\ table_name = <<>>
  /\ inflight = <<>>
  /\ replies = <<>>
  /\ copied = 0
  /\ \E r \in {NoTable, PreRows} : db = [t \in TableIdents |-> r]
  /\ load = [table |-> <<>>, rows |-> <<>>, before |-> 0]
  /\ log = <<>>

\* The same with an empty database.
InitEmptyDb == Init /\ \A t \in TableIdents : db[t] = NoTable

\* ------------------------------------------------------- error propagation
\* `tokio_postgres::connect(..).await?` (line 24).
AfterConnect(ok) == IF ok THEN "verify" ELSE "failed"

\* A verify_connection whose error is dropped.
AfterVerifyIgnored(ok) == "readdir"

\* `verify_connection(&client).await?` (line 32).
AfterVerify(ok) == IF ok THEN "readdir" ELSE "failed"

\* A header check that aborts on a mismatch.
AfterCheckStrict(valid) == IF valid THEN "name" ELSE "failed"

\* Lines 46-49: nothing is returned on a mismatch.
AfterCheck(valid) == "name"

\* A create_table whose error is dropped.
AfterCreateIgnored(ok) == "canon"

\* `create_table(..).await.with_context(..)?` (lines 57-59).
AfterCreate(ok) == IF ok THEN "canon" ELSE "failed"

\* A fill_data that is started and not awaited.
AfterFillCallDetached == "next"

\* `fill_data(..).await`: main waits for the copy (lines 65-66).
AfterFillCall == "fill"

\* A fill_data that reports Ok whatever the copy's result.
FillResultIgnored(r) == TRUE

\* fill_data's result: `c.execute(..).await.with_context(..)?; Ok(())`.
FillResult(r) == r

\* A loop that loads the same file again after a successful load.
AfterFillReload(ok) == IF ok THEN "canon" ELSE "failed"

\* `fill_data(..).await.with_context(..)?`, then the next entry (lines 65-70).
AfterFill(ok) == IF ok THEN "next" ELSE "failed"

\* Lines 46-49: the lines the header check prints.
HeaderCheckOutput(f, h, v) ==
  (IF ~RecordEq(h, v) THEN <<Ev("print_invalid", f, h)>> ELSE <<>>)
    \o <<Ev("print_header_valid", f, <<>>)>>

\* ----------------------------------------------------------------- main()
\* Lines 20-24: parse the arguments, build the expected record, connect.
Start ==
  /\ pc = "start"
  /\ valid_header_record' = valid_header
  /\ log' = Append(log, Ev("connect", <<>>, <<>>))
  /\ pc' = "connect"
  /\ UNCHANGED <<seen, file_name, headers, table_name, inflight, replies,
                 copied, db, load>>

\* Lines 24-32: the connect resolves; on success the connection task is
\* spawned (it only moves protocol messages: the statements and replies of
\* inflight and replies) and verify_connection sends `select 1`.
ConnectDone ==
  /\ pc = "connect"
  /\ \E ok \in BOOLEAN :
       /\ pc' = AfterConnect(ok)
       /\ IF ok
            THEN /\ inflight' = Append(inflight, Stmt("select", <<>>, <<>>, <<>>))
                 /\ log' = log \o <<Ev("connect_ok", <<>>, <<>>), Ev("select", <<>>, <<>>)>>
            ELSE /\ inflight' = inflight
                 /\ log' = Append(log, Ev("connect_err", <<>>, <<>>))
  /\ UNCHANGED <<valid_header_record, seen, file_name, headers, table_name,
                 replies, copied, db, load>>

\* Lines 32, 75-78: the result of `select 1`.
VerifyDone ==
  /\ pc = "verify"
  /\ replies # <<>>
  /\ LET ok == Head(replies)
     IN  /\ pc' = AfterVerify(ok)
         /\ log' = Append(log, Ev(IF ok THEN "select_ok" ELSE "select_err", <<>>, <<>>))
  /\ replies' = Tail(replies)
  /\ UNCHANGED <<valid_header_record, seen, file_name, headers, table_name,
                 inflight, copied, db, load>>

\* Line 34: fs::read_dir(..).unwrap().
ReadDir ==
  /\ pc = "readdir"
  /\ \E ok \in BOOLEAN :
       /\ pc' = IF ok THEN "next" ELSE "panicked"
       /\ log' = Append(log, IF ok THEN Ev("read_dir", <<>>, <<>>)
                                ELSE Ev("panic", <<>>, <<"read_dir">>))
  /\ UNCHANGED <<valid_header_record, seen, file_name, headers, table_name,
                 inflight, replies, copied, db, load>>

\* Lines 35-38 and 72: the iterator ends (Ok(()) is returned), yields an
\* error (unwrap panics), or yields an entry not yielded before, in any order.
NextPath(Names) ==
  /\ pc = "next"
  /\ \/ /\ pc' = "done"
        /\ log' = Append(log, Ev("exit_ok", <<>>, <<>>))
        /\ UNCHANGED <<seen, file_name>>
     \/ /\ pc' = "panicked"
        /\ log' = Append(log, Ev("panic", <<>>, <<"entry">>))
        /\ UNCHANGED <<seen, file_name>>
     \/ /\ Cardinality(seen) < MaxFiles
        /\ \E f \in Names \ seen :
             /\ seen' = seen \cup {f}
             /\ file_name' = f
             /\ log' = Append(log, Ev("print_reading", f, <<>>))
        /\ pc' = "open"
  /\ UNCHANGED <<valid_header_record, headers, table_name, inflight, replies,
                 copied, db, load>>

\* Lines 41-45: open the file (unwrap panics on failure) and read its header
\* record (an error is returned with context).
OpenFile(Headers) ==
  /\ pc = "open"
  /\ \/ /\ pc' = "panicked"
        /\ log' = Append(log, Ev("panic", file_name, <<"open">>))
        /\ UNCHANGED headers
     \/ /\ pc' = "failed"
        /\ log' = log \o <<Ev("open", file_name, <<>>), Ev("headers_err", file_name, <<>>)>>
        /\ UNCHANGED headers
     \/ \E h \in Headers :
          /\ headers' = h
          /\ log' = log \o <<Ev("open", file_name, <<>>), Ev("headers", file_name, <<>>)>>
          /\ pc' = "check"
  /\ UNCHANGED <<valid_header_record, seen, file_name, table_name, inflight,
                 replies, copied, db, load>>

\* Lines 46-49: compare the header with the expected record and print.
CheckHeader ==
  /\ pc = "check"
  /\ log' = log \o HeaderCheckOutput(file_name, headers, valid_header_record)
  /\ pc' = AfterCheck(RecordEq(headers, valid_header_record))
  /\ UNCHANGED <<valid_header_record, seen, file_name, headers, table_name,
                 inflight, replies, copied, db, load>>

\* Lines 52-54: the table name from the file name.
DeriveTableName ==
  /\ pc = "name"
  /\ \E o \in DeriveOutcomes(file_name) :
       IF o.panic
         THEN /\ pc' = "panicked"
              /\ log' = Append(log, Ev("panic", file_name, <<"truncate">>))
              /\ UNCHANGED table_name
         ELSE /\ pc' = "create_call"
              /\ table_name' = o.name
              /\ log' = Append(log, Ev("table_name", file_name, o.name))
  /\ UNCHANGED <<valid_header_record, seen, file_name, headers, inflight,
                 replies, copied, db, load>>

\* Lines 56-58, 80-84: print, and send the create-table statement.
CreateTableCall ==
  /\ pc = "create_call"
  /\ inflight' = Append(inflight, Stmt("create", table_name, file_name, <<>>))
  /\ log' = log \o <<Ev("print_creating", file_name, table_name),
                     Ev("create", file_name, table_name)>>
  /\ pc' = "create"
  /\ UNCHANGED <<valid_header_record, seen, file_name, headers, table_name,
                 replies, copied, db, load>>

\* Lines 57-59: the result of the create-table statement.
CreateTableDone ==
  /\ pc = "create"
  /\ replies # <<>>
  /\ LET ok == Head(replies)
     IN  /\ pc' = AfterCreate(ok)
         /\ log' = Append(log, Ev(IF ok THEN "create_ok" ELSE "create_err",
                                  file_name, table_name))
  /\ replies' = Tail(replies)
  /\ UNCHANGED <<valid_header_record, seen, file_name, headers, table_name,
                 inflight, copied, db, load>>

\* Lines 62-66, 89-100: canonicalize the path (unwrap panics on failure),
\* print, and send the copy statement, which names the file the server reads.
FillCall ==
  /\ pc = "canon"
  /\ \/ /\ pc' = "panicked"
        /\ log' = Append(log, Ev("panic", file_name, <<"canonicalize">>))
        /\ UNCHANGED <<inflight, load>>
     \/ \E rows \in RowFiles :
          /\ inflight' = Append(inflight, Stmt("copy", table_name, file_name, rows))
          /\ load' = [table |-> DbIdent(table_name), rows |-> rows,
                      before |-> db[DbIdent(table_name)]]
          /\ log' = log \o <<Ev("canonicalize", file_name, <<>>),
                             Ev("print_filling", file_name, <<>>),
                             Ev("copy", file_name, table_name)>>
          /\ pc' = AfterFillCall
  /\ UNCHANGED <<valid_header_record, seen, file_name, headers, table_name,
                 replies, copied, db>>

\* Lines 65-70: fill_data's result; on success the separator is printed and
\* the loop goes on.
FillDone ==
  /\ pc = "fill"
  /\ replies # <<>>
  /\ LET ok == FillResult(Head(replies))
     IN  /\ pc' = AfterFill(ok)
         /\ log' = log \o (IF ok
                             THEN <<Ev("copy_ok", file_name, table_name),
                                    Ev("print_separator", file_name, <<>>)>>
                             ELSE <<Ev("copy_err", file_name, table_name)>>)
  /\ replies' = Tail(replies)
  /\ UNCHANGED <<valid_header_record, seen, file_name, headers, table_name,
                 inflight, copied, db, load>>

\* ------------------------------------------------------------- the database
\* The server executes `select 1`: a result, or an error.
DbSelect ==
  /\ inflight # <<>>
  /\ Head(inflight).kind = "select"
  /\ \E ok \in BOOLEAN : replies' = Append(replies, ok)
  /\ inflight' = Tail(inflight)
  /\ UNCHANGED <<pc, valid_header_record, seen, file_name, headers, table_name,
                 copied, db, load, log>>

\* The server executes `create table if not exists`: the table is created
\* empty or found as it is, or the statement fails and changes nothing.
DbCreate ==
  /\ inflight # <<>>
  /\ Head(inflight).kind = "create"
  /\ \E ok \in BOOLEAN :
       /\ replies' = Append(replies, ok)
       /\ db' = IF ok
                  THEN [db EXCEPT ![DbIdent(Head(inflight).table)] =
                                     IF @ = NoTable THEN 0 ELSE @]
                  ELSE db
  /\ inflight' = Tail(inflight)
  /\ UNCHANGED <<pc, valid_header_record, seen, file_name, headers, table_name,
                 copied, load, log>>

\* The running copy reads the file's next row, which has a field for every
\* listed column; the row is not visible before the statement commits.
DbCopyRow ==
  /\ inflight # <<>>
  /\ Head(inflight).kind = "copy"
  /\ db[DbIdent(Head(inflight).table)] # NoTable
  /\ copied < Len(Head(inflight).rows)
  /\ Head(inflight).rows[copied + 1] = Len(CopyColumns)
  /\ copied' = copied + 1
  /\ UNCHANGED <<pc, valid_header_record, seen, file_name, headers, table_name,
                 inflight, replies, db, load, log>>

\* The running copy fails (a malformed row, a missing table, a file the
\* server cannot read, a lost connection): its rows are discarded.
DbCopyAbort ==
  /\ inflight # <<>>
  /\ Head(inflight).kind = "copy"
  /\ copied' = 0
  /\ replies' = Append(replies, FALSE)
  /\ inflight' = Tail(inflight)
  /\ UNCHANGED <<pc, valid_header_record, seen, file_name, headers, table_name,
                 db, load, log>>

\* The running copy has read every row of the file: the statement commits.
DbCopyCommit ==
  /\ inflight # <<>>
  /\ Head(inflight).kind = "copy"
  /\ db[DbIdent(Head(inflight).table)] # NoTable
  /\ copied = Len(Head(inflight).rows)
  /\ db' = [db EXCEPT ![DbIdent(Head(inflight).table)] = @ + copied]
  /\ copied' = 0
  /\ replies' = Append(replies, TRUE)
  /\ inflight' = Tail(inflight)
  /\ UNCHANGED <<pc, valid_header_record, seen, file_name, headers, table_name,
                 load, log>>

\* ---------------------------------------------------------- specifications
\* A run over a directory of up to MaxFiles of the files of NameSet.
Next ==
  \/ Start
  \/ ConnectDone
  \/ VerifyDone
  \/ ReadDir
  \/ NextPath(NameSet)
  \/ OpenFile(DirHeaders)
  \/ CheckHeader
  \/ DeriveTableName
  \/ CreateTableCall
  \/ CreateTableDone
  \/ FillCall
  \/ FillDone
  \/ DbSelect
  \/ DbCreate
  \/ DbCopyRow
  \/ DbCopyAbort
  \/ DbCopyCommit

Spec == Init /\ [][Next]_vars

\* A run up to the header check of its first file, over every header of
\* HeaderCases.
NextHeader ==
  \/ Start
  \/ ConnectDone
  \/ DbSelect
  \/ VerifyDone
  \/ ReadDir
  \/ NextPath(NameSet)
  \/ OpenFile(HeaderCases)
  \/ CheckHeader

SpecHeader == InitEmptyDb /\ [][NextHeader]_vars

\* A run up to the table name of its first file, over every file name of
\* AllNames.
NextName ==
  \/ Start
  \/ ConnectDone
  \/ DbSelect
  \/ VerifyDone
  \/ ReadDir
  \/ NextPath(AllNames)
  \/ OpenFile({valid_header})
  \/ CheckHeader
  \/ DeriveTableName

SpecName == InitEmptyDb /\ [][NextName]_vars

\* ------------------------------------------------------------------ claims
\* Positions of the log.
Idx == 1..Len(log)

\* The log holds an entry of kind e.
Has(e) == \E i \in Idx : log[i].ev = e

\* The kind of the log's latest entry.
LastEv == IF log = <<>> THEN "none" ELSE log[Len(log)].ev

\* The log holds an entry of kind e for file f after position i.
Later(i, e, f) == \E j \in (i + 1)..Len(log) : log[j].ev = e /\ log[j].file = f

\* Characters sanitise replaces.
Unsafe == {"-", " ", "."}

\* C1: when create_table or fill_data returns an error the run stops there:
\* the error is the last thing the run does (no header read, create or copy
\* follows for any later file), nothing is left on the connection, and the
\* run has failed rather than finished.
C1_ErrorStopsRun ==
  \A i \in Idx :
    log[i].ev \in {"create_err", "copy_err"} =>
      /\ i = Len(log)
      /\ pc = "failed"
      /\ inflight = <<>>
      /\ replies = <<>>

\* A load failed while the directory may still hold unread files.
C1_Witness ==
  /\ pc = "failed"
  /\ LastEv = "copy_err"
  /\ Cardinality(seen) < MaxFiles

\* C2: a readable header that differs from the expected one is reported and
\* nothing more: the "Header valid" line and the table name follow as for any
\* file, the run never fails at the header check, a file whose processing
\* ran to its end had its create-table and copy statements issued for its
\* sanitised name, and the copy is issued whenever the create succeeded and
\* the path could be canonicalized.
C2_MismatchOnlyWarns ==
  /\ pc = "failed" =>
       LastEv \in {"connect_err", "select_err", "headers_err", "create_err", "copy_err"}
  /\ \A i \in Idx :
       log[i].ev = "print_invalid" =>
         LET f == log[i].file
         IN  /\ i < Len(log)
             /\ log[i + 1].ev = "print_header_valid"
             /\ i + 1 = Len(log) => pc = "name"
             /\ i + 1 < Len(log) =>
                  \/ log[i + 2].ev = "panic" /\ log[i + 2].arg = <<"truncate">>
                  \/ /\ log[i + 2].ev = "table_name"
                     /\ \E o \in DeriveOutcomes(f) : ~o.panic /\ log[i + 2].arg = o.name
             /\ i + 2 < Len(log) /\ log[i + 2].ev = "table_name" =>
                  /\ log[i + 3].ev = "print_creating"
                  /\ log[i + 4].ev = "create"
                  /\ log[i + 4].file = f
                  /\ log[i + 4].arg = log[i + 2].arg
             /\ Later(i, "create_ok", f) /\ Later(i, "canonicalize", f) =>
                  Later(i, "copy", f)
             /\ (pc = "done" \/ file_name # f) =>
                  /\ Later(i, "create", f)
                  /\ Later(i, "copy", f)

\* A file with a mismatched header was reported, created and loaded, and the
\* run finished.
C2_Witness ==
  /\ pc = "done"
  /\ \E i \in Idx :
       /\ log[i].ev = "print_invalid"
       /\ Later(i, "copy_ok", log[i].file)

\* C3: when the connect or the `select 1` verification fails the run has
\* failed and has touched no file: no directory listing, no entry, no file
\* opened, no path canonicalized, no create-table or copy statement.
C3_ConnectFailureTouchesNothing ==
  (Has("connect_err") \/ Has("select_err")) =>
    /\ pc = "failed"
    /\ seen = {}
    /\ \A i \in Idx :
         log[i].ev \notin {"read_dir", "print_reading", "open", "headers",
                           "headers_err", "table_name", "create", "canonicalize",
                           "copy", "panic"}
    /\ \A i \in 1..Len(inflight) : inflight[i].kind = "select"

\* The verification query failed.
C3_Witness == pc = "failed" /\ LastEv = "select_err"

\* C4: the run is Start, connect, verify, then per file header, table name,
\* create, load, then Done: at most one statement is on the connection; the
\* verification follows the connect, the directory listing the verification;
\* a file is started only after the listing or after the previous file's
\* load succeeded; a create-table follows the reading of that file's header;
\* a copy follows the successful create-table of the same file and table
\* with no statement between; Done follows the listing or a finished load.
C4_Sequential ==
  /\ Len(inflight) + Len(replies) <= 1
  /\ log # <<>> => log[1].ev = "connect"
  /\ \A i \in Idx :
       /\ log[i].ev = "select" => i > 1 /\ log[i - 1].ev = "connect_ok"
       /\ log[i].ev = "read_dir" => i > 1 /\ log[i - 1].ev = "select_ok"
       /\ log[i].ev = "print_reading" =>
            /\ i > 2
            /\ \/ log[i - 1].ev = "read_dir"
               \/ log[i - 1].ev = "print_separator" /\ log[i - 2].ev = "copy_ok"
       /\ log[i].ev = "create" =>
            \E j \in 1..(i - 1) :
              /\ log[j].ev = "headers"
              /\ log[j].file = log[i].file
              /\ \A k \in (j + 1)..(i - 1) :
                   log[k].ev \in {"print_invalid", "print_header_valid",
                                  "table_name", "print_creating"}
       /\ log[i].ev = "copy" =>
            \E j \in 1..(i - 1) :
              /\ log[j].ev = "create_ok"
              /\ log[j].file = log[i].file
              /\ log[j].arg = log[i].arg
              /\ \A k \in (j + 1)..(i - 1) :
                   log[k].ev \in {"canonicalize", "print_filling"}
       /\ log[i].ev = "exit_ok" =>
            /\ i = Len(log)
            /\ i > 2
            /\ \/ log[i - 1].ev = "read_dir"
               \/ log[i - 1].ev = "print_separator" /\ log[i - 2].ev = "copy_ok"
  /\ pc = "done" <=> LastEv = "exit_ok"

\* The second file's copy is on the connection.
C4_Witness ==
  /\ pc = "fill"
  /\ Cardinality(seen) = 2
  /\ Len(inflight) = 1
  /\ Head(inflight).kind = "copy"

\* The step of lines 52-54 has just run for the current file.
Derived ==
  \/ LastEv = "table_name"
  \/ LastEv = "panic" /\ log[Len(log)].arg = <<"truncate">>

\* The name ends in a '.' and an extension of three characters, none of
\* them a '-', ' ' or '.'.
EndsInExtension(n) ==
  /\ Len(n) >= 4
  /\ n[Len(n) - 3] = "."
  /\ \A i \in (Len(n) - 2)..Len(n) : n[i] \notin Unsafe

\* The name ends in a '.' and three characters of one byte each.
EndsInByteExtension(n) ==
  /\ Len(n) >= 4
  /\ n[Len(n) - 3] = "."
  /\ \A i \in (Len(n) - 2)..Len(n) : Width(n[i]) = 1

\* t is the first Len(n) - 4 characters of n with every '-', ' ' and '.'
\* replaced and every other character unchanged and in place.
IsStemOf(t, n) ==
  /\ Len(t) = Len(n) - 4
  /\ \A i \in 1..Len(t) :
       /\ t[i] \notin Unsafe
       /\ n[i] \notin Unsafe => t[i] = n[i]

\* C5 as stated: for every file name that ends in a separator and a
\* 3-character extension the table name is derived (no panic), holds no '-',
\* ' ' or '.', is 4 characters shorter than the file name, and keeps every
\* other character of the stem in place.
C5_AnyExtension ==
  (Derived /\ EndsInExtension(file_name)) =>
    /\ LastEv = "table_name"
    /\ IsStemOf(table_name, file_name)

\* C5 amended: the same for every file name that ends in a separator and
\* three characters of one byte each (an ASCII extension); the table name is
\* then also 4 bytes shorter than the file name.
C5_ByteExtension ==
  (Derived /\ EndsInByteExtension(file_name)) =>
    /\ LastEv = "table_name"
    /\ IsStemOf(table_name, file_name)
    /\ ByteLen(table_name) = ByteLen(file_name) - 4

\* A table name derived from a stem with a two-byte character and a '-'.
C5_Witness ==
  /\ Derived
  /\ EndsInByteExtension(file_name)
  /\ Len(file_name) = 6
  /\ file_name[1] = EAcute
  /\ file_name[2] = "-"
  /\ table_name = <<EAcute, "_">>

\* h holds every column of v once, in another order.
IsReordering(h, v) ==
  /\ Len(h) = Len(v)
  /\ {h[i] : i \in 1..Len(h)} = {v[i] : i \in 1..Len(v)}
  /\ \E i \in 1..Len(h) : h[i] # v[i]

\* h holds some but not all columns of v, each once, in any order.
IsProperSubset(h, v) ==
  /\ Len(h) < Len(v)
  /\ \A i \in 1..Len(h) : \E j \in 1..Len(v) : h[i] = v[j]
  /\ \A i, j \in 1..Len(h) : h[i] = h[j] => i = j

\* The invalid-header warning for the current file and header was printed.
Warned ==
  \E i \in Idx :
    /\ log[i].ev = "print_invalid"
    /\ log[i].file = file_name
    /\ log[i].arg = headers

\* C6: after the header check, no warning was printed when the header is the
\* expected sequence, and the warning naming the file and the header was
\* printed when the header is a reordering or a proper subset of it.
C6_OrderAndCountSensitive ==
  pc = "name" =>
    /\ headers = valid_header_record => ~Warned
    /\ (IsReordering(headers, valid_header_record)
          \/ IsProperSubset(headers, valid_header_record)) => Warned

\* The warning was printed for a header that omits a column and exchanges
\* two of the others.
C6_Witness ==
  /\ pc = "name"
  /\ Warned
  /\ Len(headers) = Len(valid_header_record) - 1
  /\ IsProperSubset(headers, valid_header_record)
  /\ headers[1] = valid_header_record[2]
  /\ headers[2] = valid_header_record[1]

\* Positions of the copy statements sent for table name t.
CopiesOf(t) == {i \in Idx : log[i].ev = "copy" /\ log[i].arg = t}

\* Positions of the copy statements sent for the table the database knows as t.
CopiesInto(t) == {i \in Idx : log[i].ev = "copy" /\ DbIdent(log[i].arg) = t}

\* Every statement on the connection is a select, a create table or a copy.
OnlyLoads ==
  \A i \in 1..Len(inflight) : inflight[i].kind \in {"select", "create", "copy"}

\* C7 as stated: for any files, no table name receives two copy statements
\* in a run, and no other kind of statement is sent.
C7_OneLoadPerTable ==
  /\ \A i \in Idx : log[i].ev = "copy" => Cardinality(CopiesOf(log[i].arg)) = 1
  /\ OnlyLoads

\* The files the run has read name pairwise different tables.
DistinctTables ==
  \A f, g \in seen :
    f # g =>
      \A o \in DeriveOutcomes(f), p \in DeriveOutcomes(g) :
        (~o.panic /\ ~p.panic) => DbIdent(o.name) # DbIdent(p.name)

\* C7 amended: when the files read name pairwise different tables, no table
\* receives two copy statements, a run that finishes has sent exactly one
\* copy, which succeeded, for every table it created or found, and no other
\* kind of statement is sent.
C7_OneLoadPerDistinctTable ==
  /\ OnlyLoads
  /\ \/ /\ \A i \in Idx :
             log[i].ev = "copy" => Cardinality(CopiesInto(DbIdent(log[i].arg))) = 1
        /\ pc = "done" =>
             \A i \in Idx :
               log[i].ev = "create_ok" =>
                 /\ Cardinality(CopiesInto(DbIdent(log[i].arg))) = 1
                 /\ Later(i, "copy_ok", log[i].file)
     \/ ~DistinctTables

\* A finished run that loaded two files into two tables.
C7_Witness ==
  /\ pc = "done"
  /\ Cardinality(seen) = 2
  /\ DistinctTables
  /\ Cardinality({i \in Idx : log[i].ev = "copy_ok"}) = 2

\* Position of the latest copy statement.
LastCopy == CHOOSE i \in Idx : log[i].ev = "copy" /\ \A j \in (i + 1)..Len(log) : log[j].ev # "copy"

\* C8: from the moment a copy is sent its table holds either the rows it
\* held before or those plus every data row of the file, never a part; it
\* holds the rows it held before when fill_data has failed and all of the
\* file's rows in addition when fill_data has succeeded.
C8_AllOrNothing ==
  Has("copy") =>
    LET n == Len(load.rows)
        held == db[load.table]
    IN  /\ held \in {load.before, load.before + n}
        /\ (\E j \in (LastCopy + 1)..Len(log) : log[j].ev = "copy_err") => held = load.before
        /\ (\E j \in (LastCopy + 1)..Len(log) : log[j].ev = "copy_ok") => held = load.before + n

\* A load failed on the second row of a file and the table holds what it held.
C8_Witness ==
  /\ LastEv = "copy_err"
  /\ load.rows = <<GoodRow, BadRow>>
  /\ db[load.table] = load.before

\* The first seven and the last column of the expected header.
SchemaEnds(h) ==
  /\ SubSeq(h, 1, 7) = << <<"d", "a", "t", "e">>, <<"c", "l", "o", "s", "e">>,
                          <<"h", "i", "g", "h">>, <<"l", "o", "w">>,
                          <<"o", "p", "e", "n">>, <<"v", "o", "l", "u", "m", "e">>,
                          <<"s", "m", "a", "5">> >>
  /\ h[Len(h)] = <<"B", "E", "T", "A">>

\* C9 as stated: every header is compared with one fixed sequence of exactly
\* 59 column names that starts date, close, high, low, open, volume, sma5 and
\* ends BETA.
C9_FiftyNineColumns ==
  pc # "start" =>
    /\ Len(valid_header_record) = 59
    /\ SchemaEnds(valid_header_record)

\* C9 amended: the sequence has exactly 60 column names, all different; it
\* starts and ends as stated, is the same whenever a header is compared, and
\* is the column list of the copy statement.
C9_SixtyColumns ==
  pc # "start" =>
    /\ Len(valid_header_record) = 60
    /\ SchemaEnds(valid_header_record)
    /\ Cardinality({valid_header_record[i] : i \in 1..Len(valid_header_record)}) = 60
    /\ valid_header_record = CopyColumns

\* The header of the run's second file has been compared.
C9_Witness ==
  /\ pc = "name"
  /\ Cardinality(seen) = 2
  /\ Len(valid_header_record) = 60

\* C10: "Header valid" is printed for a file only if its header equals the
\* expected one, never after the invalid-header warning for the same file.
C10_HeaderValidReflectsCheck ==
  /\ pc = "name" /\ LastEv = "print_header_valid" => headers = valid_header_record
  /\ \A i \in Idx :
       log[i].ev = "print_header_valid" =>
         ~\E j \in Idx : log[j].ev = "print_invalid" /\ log[j].file = log[i].file
====
